---- MODULE Spec2Model ----
(***************************************************************************)
(* A model of three pieces of the workbench:                               *)
(*   - the per-output action queue of the notebook webview preload script  *)
(*     (webviewPreloads.ts: outputs, kernelPreloads, renderers and the     *)
(*     window 'message' handler);                                          *)
(*   - the release-notes cache of ReleaseNotesManager                      *)
(*     (gettingStartedContent.ts);                                         *)
(*   - contribution-point selection of EditorOverrideService               *)
(*     (editorOverrideService.ts).                                         *)
(* Each piece has its own specification over the shared variables.         *)
(***************************************************************************)
EXTENDS Integers, Sequences, FiniteSets, TLC

VARIABLES
    acts,       \* every action ever passed to outputs.enqueue, in enqueue order
    recs,       \* every { cancelled, queue } record ever created by enqueue
    outputs,    \* outputs.outputs : output id -> record (NoRec when absent)
    dom,        \* the actions whose output node is attached to the document
    rend,       \* state of Renderer._loadPromise of renderer "r1"
    pre,        \* kernelPreloads.preloads : uri -> state of its promise
    preOrder,   \* the uris in the order kernelPreloads.load registered them
    releaseNotesCache,  \* _releaseNotesCache : version -> the fetch of its promise
    fetches,    \* every release-notes request issued, with its outcome
    calls,      \* history: every loadReleaseNotes call and what it returned
    shows,      \* every show() call and how far it got
    currentReleaseNotes,    \* _currentReleaseNotes and the html of its webview
    lastText,   \* _lastText
    contributionPoints, \* _contributionPoints, in the order of registration
    associations,       \* the workbench.editorAssociations setting
    resolved,   \* what the call of resolveEditorOverride that just returned gave
    disposed,   \* the registrations whose disposable was disposed
    storedChoices,  \* the stored conflictingDefaults object: glob -> editor ids
    notifications,  \* the conflicting-defaults prompts shown so far
    groups,     \* the editors open in each editor group, in tab order
    effects,    \* what the call that just returned did besides returning
    cache,      \* this.cache: the globs read from storage, until it is dropped
    extensionsRegistered,   \* whenInstalledExtensionsRegistered has resolved
    waiting,    \* the calls awaiting whenInstalledExtensionsRegistered
    rendererData,   \* rendererData: renderer id -> the id its metadata extends
    loadPromise     \* Renderer._loadPromise of each renderer, and where _load is

wvars == <<acts, recs, outputs, dom, rend, pre, preOrder>>

nvars == <<releaseNotesCache, fetches, calls, shows, currentReleaseNotes, lastText>>

\* EditorOverrideService: the registered contributions in the order of their
\* registration, the workbench.editorAssociations setting, and the outcome
\* of the call of resolveEditorOverride that has just returned
ovars == <<contributionPoints, associations, resolved>>

\* EditorOverrideService: what the later specifications track besides
xvars == <<disposed, storedChoices, notifications, groups, effects,
          cache, extensionsRegistered, waiting>>

\* the renderers of the webview and their loading
lvars == <<rendererData, loadPromise>>

vars == <<wvars, nvars, ovars, xvars, lvars>>

-----------------------------------------------------------------------------
(* Bounds and input sets of the webview model *)

\* the number of messages that enqueue an action, per specification
MaxActions == 3

MaxRenderActions == 2

OutputIds == {"o1", "o2"}

Uris == {"u1"}

\* data.rendererId of an 'html' message: absent, a known renderer, an id
\* that is not in rendererData
RendererIds == {"none", "r1", "rX"}

\* the fields of an 'html' message that its action reads
HtmlInputs == [isHtml : BOOLEAN, rid : RendererIds, req : SUBSET Uris]

\* the 'html' messages of the queue specification: renderer content that
\* waits for renderer "r1" to load
QueueHtmlInputs == {[isHtml |-> FALSE, rid |-> "r1", req |-> {}]}

NoRec == 0

Max(S) == CHOOSE x \in S : \A y \in S : y <= x

-----------------------------------------------------------------------------
(* Promise bookkeeping *)

\* a promise that is no longer pending
Settled(s) == s \in {"fulfilled", "rejected"}

\* the outcome of a load promise is known
LoadSettled(s) == s \in {"api", "undefined", "ok", "Error", "other"}

ActIds == 1..Len(acts)

\* the action whose promise record.queue held when action a was chained onto it
Pred(a) ==
    LET S == {b \in 1..(a - 1) : acts[b].rec = acts[a].rec}
    IN  IF S = {} THEN 0 ELSE Max(S)

\* record.queue.then(...) of action a has a fulfilled promise to run after
CanStart_NoWait(a) ==
    /\ acts[a].st = "pending"
    /\ Pred(a) # 0

CanStart(a) ==
    /\ acts[a].st = "pending"
    /\ Pred(a) # 0
    /\ acts[Pred(a)].st = "fulfilled"

\* .then(onFulfilled) without a rejection handler passes a rejection on
CanPropagate(a) ==
    /\ acts[a].st = "pending"
    /\ Pred(a) # 0
    /\ acts[Pred(a)].st = "rejected"

\* kernelPreloads.waitFor: the promise of a registered preload, or an
\* already resolved Error value for a uri that was never registered
waitFor(u) == IF pre[u] = "none" THEN "notReady" ELSE "promise"

\* the value the awaited renderer promise of action x produced (after
\* .catch(err => err)); no rendererId leaves the array slot undefined
RendererResult(x) ==
    CASE x.rid = "none" -> "undefined"
      [] x.rid = "rX"   -> "Error"
      [] OTHER          -> rend

\* the value the awaited preload promise of uri u produced for action x
PreloadResult(x, u) == IF u \in x.notReady THEN "Error" ELSE pre[u]

\* Promise.all of the html action has settled
CanResume(a) ==
    /\ acts[a].st = "awaiting"
    /\ acts[a].rid = "r1" => LoadSettled(rend)
    /\ \A u \in acts[a].req \ acts[a].notReady : LoadSettled(pre[u])

\* microtasks run before the next message or load event is handled
NoMicrotask == \A a \in ActIds : ~CanStart(a) /\ ~CanPropagate(a) /\ ~CanResume(a)

-----------------------------------------------------------------------------
(* outputs.enqueue and the bodies of the queued actions *)

\* state.cancelled as the action sees it: the first action of a record got
\* its own { cancelled: false } object, the later ones got the record
StateCancelled(x) == IF x.own THEN FALSE ELSE recs[x.rec].cancelled

\* !record.cancelled of the chained callback
RecordCancelled_Never(x) == FALSE

RecordCancelled(x) == recs[x.rec].cancelled

\* the synchronous part of an action body; own tells whether the state
\* object is the fresh one of line 948 or the record of line 950. The
\* bodies of hideOutput and showOutput run to completion: they only restyle
\* the container of the node, and styles are not tracked.
Invoke(x, own) ==
    IF x.kind = "html"
    THEN [x EXCEPT !.st = "awaiting", !.ran = TRUE, !.own = own,
                   !.notReady = {u \in x.req : waitFor(u) = "notReady"}]
    ELSE [x EXCEPT !.st = "fulfilled", !.ran = TRUE, !.own = own]

\* document.getElementById(id): the attached nodes with that id. Which of
\* them comes first in the document depends on the cell containers, which
\* are not tracked, so any of them may be the one returned.
getElementById(id) == {a \in dom : acts[a].id = id}

\* renderers.load(rendererId) called by an html body starts the load once
RendAfter(x) ==
    IF x.kind = "html" /\ x.rid = "r1" /\ rend = "unloaded" THEN "loading" ELSE rend

NewAction(id, kind, isHtml, rid, req, r) ==
    [id |-> id, kind |-> kind, isHtml |-> isHtml, rid |-> rid, req |-> req,
     rec |-> r, st |-> "pending", ran |-> FALSE, own |-> FALSE,
     notReady |-> {}, node |-> "none", rc |-> FALSE,
     late |-> FALSE, cxlPending |-> "no"]

enqueue(id, kind, isHtml, rid, req, bound) ==
    /\ Len(acts) < bound
    /\ NoMicrotask
    /\ IF outputs[id] = NoRec
       THEN LET r == Len(recs) + 1
                x == Invoke(NewAction(id, kind, isHtml, rid, req, r), TRUE)
            IN  /\ recs' = Append(recs, [id |-> id, cancelled |-> FALSE])
                /\ outputs' = [outputs EXCEPT ![id] = r]
                /\ acts' = Append(acts, x)
                /\ rend' = RendAfter(x)
       ELSE /\ acts' = Append(acts, NewAction(id, kind, isHtml, rid, req, outputs[id]))
            /\ UNCHANGED <<recs, outputs, rend>>
    /\ UNCHANGED <<dom, pre, preOrder>>

\* case 'html'
HtmlMessage(inputs, bound) ==
    \E id \in OutputIds, d \in inputs :
        enqueue(id, "html", d.isHtml, d.rid, d.req, bound)

\* case 'hideOutput'
HideOutputMessage(bound) ==
    \E id \in OutputIds : enqueue(id, "hideOutput", FALSE, "none", {}, bound)

\* case 'showOutput'
ShowOutputMessage(bound) ==
    \E id \in OutputIds : enqueue(id, "showOutput", FALSE, "none", {}, bound)

\* the callback r => !record.cancelled && action(record)
Start(a) ==
    /\ CanStart(a)
    /\ IF RecordCancelled(acts[a])
       THEN /\ acts' = [acts EXCEPT ![a].st = "fulfilled"]
            /\ UNCHANGED rend
       ELSE /\ acts' = [acts EXCEPT ![a] = Invoke(acts[a], FALSE)]
            /\ rend' = RendAfter(acts[a])
    /\ UNCHANGED <<recs, outputs, dom, pre, preOrder>>

Propagate(a) ==
    /\ CanPropagate(a)
    /\ acts' = [acts EXCEPT ![a].st = "rejected"]
    /\ UNCHANGED <<recs, outputs, dom, rend, pre, preOrder>>

\* e instanceof Error
IsError(v) == v = "Error"

\* preloadsAndErrors.some(e => e instanceof Error)
SomeError(x) ==
    \/ IsError(RendererResult(x))
    \/ \E u \in x.req : IsError(PreloadResult(x, u))

\* what the renderCell call of the loaded renderer does: return, throw an
\* Error, or throw null or undefined
RenderCellOutcomes == {"ok", "throwError", "throwNullish"}

\* what the second domEval(outputNode) of HTML content does: it runs the
\* scripts of the attached node, and throws a TypeError at
\* `.parentNode!.removeChild` when a script has detached its own tag
DomEvalOutcomes == {"ok", "throws"}

\* the html action body from `if (state.cancelled)` on: the final action
\* record given the behaviour of renderCell and of the content's scripts.
\* late records that the record was already cancelled at this point.
Render(x, rcOut, deOut) ==
    LET y == [x EXCEPT !.late = recs[x.rec].cancelled]
    IN  IF StateCancelled(x)
        THEN [y EXCEPT !.st = "fulfilled"]
        ELSE IF x.isHtml
        THEN [y EXCEPT !.st = IF deOut = "ok" THEN "fulfilled" ELSE "rejected",
                       !.node = "html"]
        ELSE IF SomeError(x)
        THEN [y EXCEPT !.st = "fulfilled", !.node = "errors"]
        ELSE IF RendererResult(x) # "api"
        \* rendererApi is no object with a renderCell method: the call throws
        \* a TypeError inside the try block
        THEN [y EXCEPT !.st = "fulfilled", !.node = "errors"]
        ELSE CASE rcOut = "ok" ->
                    [y EXCEPT !.st = "fulfilled", !.node = "rendered", !.rc = TRUE]
               [] rcOut = "throwError" ->
                    [y EXCEPT !.st = "fulfilled", !.node = "errors", !.rc = TRUE]
               \* showPreloadErrors reads result.message of null or
               \* undefined and throws before the node is appended
               [] OTHER ->
                    [y EXCEPT !.st = "rejected", !.rc = TRUE]

Resume(a) ==
    /\ CanResume(a)
    /\ \E rcOut \in RenderCellOutcomes, deOut \in DomEvalOutcomes :
        LET y == Render(acts[a], rcOut, deOut)
        IN  /\ acts' = [acts EXCEPT ![a] = y]
            /\ dom' = IF y.node # "none" THEN dom \cup {a} ELSE dom
    /\ UNCHANGED <<recs, outputs, rend, pre, preOrder>>

-----------------------------------------------------------------------------
(* cancellation *)

\* history: mark the actions of the records R that have not started with
\* the operation that cancelled them
MarkPending(A, R, by) ==
    [a \in DOMAIN A |->
        IF A[a].rec \in R /\ A[a].st = "pending"
        THEN [A[a] EXCEPT !.cxlPending = by] ELSE A[a]]

cancelOutput(id) ==
    /\ IF outputs[id] # NoRec
       THEN /\ recs' = [recs EXCEPT ![outputs[id]].cancelled = TRUE]
            /\ outputs' = [outputs EXCEPT ![id] = NoRec]
            /\ acts' = MarkPending(acts, {outputs[id]}, "cancelOutput")
       ELSE UNCHANGED <<recs, outputs, acts>>

\* case 'clearOutput'
ClearOutputMessage ==
    /\ NoMicrotask
    /\ \E id \in OutputIds :
        /\ cancelOutput(id)
        /\ IF getElementById(id) = {}
           THEN dom' = dom
           ELSE \E output \in getElementById(id) : dom' = dom \ {output}
    /\ UNCHANGED <<rend, pre, preOrder>>

cancelAll ==
    LET R == {outputs[id] : id \in OutputIds} \ {NoRec}
    IN  /\ recs' = [r \in DOMAIN recs |->
                      IF r \in R THEN [recs[r] EXCEPT !.cancelled = TRUE] ELSE recs[r]]
        /\ outputs' = [id \in OutputIds |-> NoRec]
        /\ acts' = MarkPending(acts, R, "cancelAll")

\* case 'clear'
ClearMessage ==
    /\ NoMicrotask
    /\ cancelAll
    /\ dom' = {}
    /\ UNCHANGED <<rend, pre, preOrder>>

-----------------------------------------------------------------------------
(* loading of renderers and kernel preloads *)

\* case 'preload': kernelPreloads.load(uri, originalUri)
PreloadMessage ==
    /\ NoMicrotask
    /\ \E u \in Uris :
        /\ pre[u] = "none"
        /\ pre' = [pre EXCEPT ![u] = "loading"]
        /\ preOrder' = Append(preOrder, u)
    /\ UNCHANGED <<acts, recs, outputs, dom, rend>>

\* the promise of kernelPreloads.load settles once the script was fetched
\* and every preload registered before it has settled
PreloadSettle ==
    /\ NoMicrotask
    /\ \E u \in Uris, out \in {"ok", "Error", "other"} :
        /\ pre[u] = "loading"
        /\ \A i \in 1..Len(preOrder) :
              (\E j \in (i + 1)..Len(preOrder) : preOrder[j] = u) /\ preOrder[i] # u
                  => LoadSettled(pre[preOrder[i]])
        /\ pre' = [pre EXCEPT ![u] = out]
    /\ UNCHANGED <<acts, recs, outputs, dom, rend, preOrder>>

\* how Renderer._load can settle: with the api object activate returned,
\* with undefined (no module, or activate returned nothing), rejected with
\* an Error, or rejected with a value that is not an Error
RendererOutcomes == {"api", "undefined", "Error", "other"}

\* the outcomes of the queue specification
QueueRendererOutcomes == {"api", "Error"}

\* Renderer._load settles
RendererSettle(outcomes) ==
    /\ NoMicrotask
    /\ rend = "loading"
    /\ \E out \in outcomes : rend' = out
    /\ UNCHANGED <<acts, recs, outputs, dom, pre, preOrder>>

-----------------------------------------------------------------------------

(***************************************************************************)
(* ReleaseNotesManager                                                     *)
(***************************************************************************)

MaxLoads == 3

MaxShows == 2

\* version strings, as sequences of characters: two patch versions of one
\* minor version, and two strings /^(\d+\.\d+)\./ does not match
Versions ==
    {<<"1", ".", "5", ".", "0">>, <<"1", ".", "5", ".", "1">>,
     <<"1", ".", "5">>, <<"v", "1", ".", "5", ".">>}

Digits == {"0", "1", "5"}

\* the index after the run of digits of s that starts at i
RECURSIVE DigitsEnd(_, _)
DigitsEnd(s, i) ==
    IF i <= Len(s) /\ s[i] \in Digits THEN DigitsEnd(s, i + 1) ELSE i

\* /^(\d+\.\d+)\./.exec(version): the length of match[1], 0 for no match
VersionMatch(v) ==
    LET j == DigitsEnd(v, 1)
        k == DigitsEnd(v, j + 1)
    IN  IF /\ j > 1 /\ j <= Len(v) /\ v[j] = "."
           /\ k > j + 1 /\ k <= Len(v) /\ v[k] = "."
        THEN k - 1 ELSE 0

\* the url requested: match[1] with every '.' replaced by '_'
Url(v) ==
    [i \in 1..VersionMatch(v) |-> IF v[i] = "." THEN "_" ELSE v[i]]

\* response bodies, as sequences of tokens; "kb" stands for a kb(...) token
Texts ==
    {<<>>, <<"#">>, <<"#", " ">>, <<"#", " ", "kb">>, <<"#", "x">>, <<" ", "#", " ">>}

Whitespace == {" "}

\* /^#\s/.test(text)
StartsWithHeading(text) ==
    Len(text) >= 2 /\ text[1] = "#" /\ text[2] \in Whitespace

\* !text || !/^#\s/.test(text)
InvalidNotes(text) == text = <<>> \/ ~StartsWithHeading(text)

\* patchKeybindings: every kb(...) token becomes the label of its
\* keybinding, or "unassigned" when there is none
patchKeybindings(text, bound) ==
    [i \in 1..Len(text) |->
        IF text[i] = "kb" THEN (IF bound THEN "label" ELSE "unassigned") ELSE text[i]]

\* the literal of line 520 (it starts with blank lines, then a heading)
HardCodedNotes == <<" ", "#", " ", "January 2021">>

\* the condition of the conditional of line 520
ShowLoadsNotes == FALSE

NoFetch == 0

\* _releaseNotesCache.has(version)
CacheHas_Never(v) == FALSE

CacheHas(v) == releaseNotesCache[v] # NoFetch

\* loadReleaseNotes(version): the cache and the requests after the call, and
\* the fetch whose promise the call returns (NoFetch: it threw 'not found')
LoadEffect(v) ==
    IF VersionMatch(v) = 0
    THEN [cache |-> releaseNotesCache, fetches |-> fetches, ret |-> NoFetch]
    ELSE IF ~CacheHas(v)
    THEN [cache |-> [releaseNotesCache EXCEPT ![v] = Len(fetches) + 1],
          fetches |-> Append(fetches,
                        [version |-> v, url |-> Url(v), st |-> "inflight",
                         resp |-> "none", body |-> <<>>, text |-> <<>>]),
          ret |-> Len(fetches) + 1]
    ELSE [cache |-> releaseNotesCache, fetches |-> fetches, ret |-> releaseNotesCache[v]]

loadReleaseNotes ==
    /\ Len(calls) < MaxLoads
    /\ \E v \in Versions :
        LET e == LoadEffect(v)
        IN  /\ releaseNotesCache' = e.cache
            /\ fetches' = e.fetches
            /\ calls' = Append(calls,
                          [version |-> v, ret |-> e.ret,
                           cachedBefore |-> releaseNotesCache[v],
                           newRequest |-> Len(e.fetches) > Len(fetches)])
    /\ UNCHANGED <<shows, currentReleaseNotes, lastText>>

\* the catch block of the cached promise: this._releaseNotesCache.delete(version)
CacheAfterFailure_Keep(f) == releaseNotesCache

CacheAfterFailure(f) == [releaseNotesCache EXCEPT ![fetches[f].version] = NoFetch]

\* the request fails: fetchReleaseNotes throws 'Failed to fetch release notes'
RequestFails ==
    /\ \E f \in 1..Len(fetches) :
        /\ fetches[f].st = "inflight"
        /\ fetches' = [fetches EXCEPT ![f].st = "failed", ![f].resp = "error"]
        /\ releaseNotesCache' = CacheAfterFailure(f)
    /\ UNCHANGED <<calls, shows, currentReleaseNotes, lastText>>

\* the request answers with a text: fetchReleaseNotes validates and patches it
RequestAnswers ==
    /\ \E f \in 1..Len(fetches), text \in Texts, bound \in BOOLEAN :
        /\ fetches[f].st = "inflight"
        /\ IF InvalidNotes(text)
           THEN /\ fetches' = [fetches EXCEPT ![f].st = "failed", ![f].resp = "text",
                                              ![f].body = text]
                /\ releaseNotesCache' = CacheAfterFailure(f)
           ELSE /\ fetches' = [fetches EXCEPT ![f].st = "ok", ![f].resp = "text",
                                              ![f].body = text,
                                              ![f].text = patchKeybindings(text, bound)]
                /\ UNCHANGED releaseNotesCache
    /\ UNCHANGED <<calls, shows, currentReleaseNotes, lastText>>

\* renderBody(text): the document built around the rendered markdown
renderBody(text) == <<"<html>">> \o text \o <<"</html>">>

\* show(accessor, version) up to its first await
show ==
    /\ Len(shows) < MaxShows
    /\ \E v \in Versions :
        IF ShowLoadsNotes
        THEN LET e == LoadEffect(v)
             IN  /\ releaseNotesCache' = e.cache
                 /\ fetches' = e.fetches
                 /\ shows' = Append(shows,
                       [version |-> v, load |-> e.ret, text |-> <<>>,
                        st |-> IF e.ret = NoFetch THEN "rejected" ELSE "loading"])
                 /\ UNCHANGED lastText
        ELSE /\ shows' = Append(shows,
                   [version |-> v, load |-> NoFetch, text |-> HardCodedNotes,
                    st |-> "rendering"])
             /\ lastText' = HardCodedNotes
             /\ UNCHANGED <<releaseNotesCache, fetches>>
    /\ UNCHANGED <<calls, currentReleaseNotes>>

\* show resumes after an await: after `await this.loadReleaseNotes(version)`
\* with the text or the rejection, after `await this.renderBody(...)` with
\* the html, which it puts into the revealed or newly created webview
showResumed ==
    /\ \E s \in 1..Len(shows) :
        \/ /\ shows[s].st = "loading"
           /\ fetches[shows[s].load].st # "inflight"
           /\ IF fetches[shows[s].load].st = "ok"
              THEN /\ shows' = [shows EXCEPT ![s].st = "rendering",
                                             ![s].text = fetches[shows[s].load].text]
                   /\ lastText' = fetches[shows[s].load].text
              ELSE /\ shows' = [shows EXCEPT ![s].st = "rejected"]
                   /\ UNCHANGED lastText
           /\ UNCHANGED currentReleaseNotes
        \/ /\ shows[s].st = "rendering"
           /\ shows' = [shows EXCEPT ![s].st = "done"]
           /\ currentReleaseNotes' =
                 [open |-> TRUE, title |-> shows[s].version,
                  html |-> renderBody(shows[s].text),
                  created |-> IF currentReleaseNotes.open
                              THEN currentReleaseNotes.created
                              ELSE currentReleaseNotes.created + 1]
           /\ UNCHANGED lastText
    /\ UNCHANGED <<releaseNotesCache, fetches, calls>>

\* this._currentReleaseNotes.onDispose
disposeReleaseNotes ==
    /\ currentReleaseNotes.open
    /\ currentReleaseNotes' = [currentReleaseNotes EXCEPT !.open = FALSE]
    /\ UNCHANGED <<releaseNotesCache, fetches, calls, shows, lastText>>

NInit ==
    /\ releaseNotesCache = [v \in Versions |-> NoFetch]
    /\ fetches = <<>>
    /\ calls = <<>>
    /\ shows = <<>>
    /\ currentReleaseNotes = [open |-> FALSE, title |-> <<>>, html |-> <<>>, created |-> 0]
    /\ lastText = <<>>

-----------------------------------------------------------------------------

WInit ==
    /\ acts = <<>>
    /\ recs = <<>>
    /\ outputs = [id \in OutputIds |-> NoRec]
    /\ dom = {}
    /\ rend = "unloaded"
    /\ pre = [u \in Uris |-> "none"]
    /\ preOrder = <<>>

(***************************************************************************)
(* EditorOverrideService                                                   *)
(***************************************************************************)

MaxContributions == 2

EditorIds == {"default", "a", "b"}

Resources == {"f.a", "f.b"}

\* editor.resource of an input without a resource
NoResource == "none"

Globs == {"*", "*.a"}

\* the contributions that get registered: globPattern, editorInfo.id,
\* editorInfo.priority, and options.canSupportResource, which is either
\* not defined or accepts the resources in supports
Contributions ==
    { [globPattern |-> "*", id |-> "default", priority |-> "builtin",
       hasCanSupport |-> FALSE, supports |-> {}],
      [globPattern |-> "*.a", id |-> "a", priority |-> "exclusive",
       hasCanSupport |-> FALSE, supports |-> {}],
      [globPattern |-> "*.a", id |-> "a", priority |-> "exclusive",
       hasCanSupport |-> TRUE, supports |-> {"f.b"}],
      [globPattern |-> "*", id |-> "b", priority |-> "builtin",
       hasCanSupport |-> FALSE, supports |-> {}],
      [globPattern |-> "*", id |-> "a", priority |-> "option",
       hasCanSupport |-> FALSE, supports |-> {}] }

\* the view types the user associates with a pattern
AssociationIds == {"a", "b"}

\* priorityToRank of common/editorOverrideService
priorityToRank(p) ==
    CASE p = "exclusive" -> 5
      [] p = "default"   -> 4
      [] p = "builtin"   -> 3
      [] OTHER           -> 1

\* globMatchesResource of common/editorOverrideService, for the patterns
\* and resources above
globMatchesResource(g, r) == g = "*" \/ (g = "*.a" /\ r = "f.a")

DEFAULT_EDITOR_ASSOCIATION == [id |-> "default"]

NoContribution == 0

\* the contributions by their position in the order of registration
Indices == [i \in 1..Len(contributionPoints) |-> i]

\* contribution i is the first one registered under its key
FirstOfKey(i) ==
    \A j \in 1..(i - 1) :
        contributionPoints[j].globPattern # contributionPoints[i].globPattern

RECURSIVE flatten(_)
\* the arrays of the keys, one after the other; disposing a registration
\* has removed it from the array of its key
flatten(keys) ==
    IF keys = <<>> THEN <<>>
    ELSE LET SameKey(i) == /\ i \notin disposed
                           /\ contributionPoints[i].globPattern
                                 = contributionPoints[Head(keys)].globPattern
         IN  SelectSeq(Indices, SameKey) \o flatten(Tail(keys))

\* get _allContributions: the map iterates its keys in insertion order
allContributions == flatten(SelectSeq(Indices, FirstOfKey))

getAllUserAssociations == associations

getAssociationsForResource(resource) ==
    LET Valid(association) ==
            /\ association.filenamePattern # ""
            /\ globMatchesResource(association.filenamePattern, resource)
            /\ \E k \in 1..Len(allContributions) :
                  contributionPoints[allContributions[k]].id = association.viewType
    IN  SelectSeq(getAllUserAssociations, Valid)

\* Array.prototype.sort with the comparator of line 244 (the sort is stable)
sortByRank(points) ==
    LET OfRank(r) ==
            LET Is(i) == priorityToRank(contributionPoints[i].priority) = r
            IN  SelectSeq(points, Is)
    IN  OfRank(5) \o OfRank(4) \o OfRank(3) \o OfRank(2) \o OfRank(1)

findMatchingContributions_GlobOnly(resource) ==
    LET Matches(i) == globMatchesResource(contributionPoints[i].globPattern, resource)
    IN  sortByRank(SelectSeq(allContributions, Matches))

findMatchingContributions(resource) ==
    LET userSettings == getAssociationsForResource(resource)
        Matches(i) ==
            \/ \E k \in 1..Len(userSettings) :
                  userSettings[k].viewType = contributionPoints[i].id
            \/ globMatchesResource(contributionPoints[i].globPattern, resource)
    IN  sortByRank(SelectSeq(allContributions, Matches))

getEditorIds(resource) ==
    LET points == findMatchingContributions(resource)
    IN  [k \in 1..Len(points) |-> contributionPoints[points[k]].id]

\* the callback of find in findMatchingContribPoint
CanOpen(i, viewType, resource) ==
    IF contributionPoints[i].hasCanSupport
    THEN contributionPoints[i].id = viewType
            /\ resource \in contributionPoints[i].supports
    ELSE contributionPoints[i].id = viewType

findMatchingContribPoint(points, viewType, resource) ==
    LET Test(i) == CanOpen(i, viewType, resource)
        found == SelectSeq(points, Test)
    IN  IF found = <<>> THEN NoContribution ELSE Head(found)

\* the contributions an explicit override is looked up in
OverrideCandidates_Matching(resource) == findMatchingContributions(resource)

OverrideCandidates(resource) == allContributions

\* selectedViewType of getContributionPoint; "undefined" when there is none
selectedViewType_SettingFirst(possible, fromSetting) ==
    IF fromSetting # <<>> THEN fromSetting[1].viewType
    ELSE IF possible # <<>> THEN contributionPoints[possible[1]].id
    ELSE "undefined"

selectedViewType(possible, fromSetting) ==
    IF possible # <<>> /\ contributionPoints[possible[1]].priority = "exclusive"
    THEN contributionPoints[possible[1]].id
    ELSE IF fromSetting # <<>> THEN fromSetting[1].viewType
    ELSE IF possible # <<>> THEN contributionPoints[possible[1]].id
    ELSE "undefined"

\* conflictingDefault of getContributionPoint
conflictingDefault_IgnoreSetting(fromSetting, possible) == Len(possible) > 1

conflictingDefault(fromSetting, possible) ==
    Len(fromSetting) = 0 /\ Len(possible) > 1

getContributionPoint(resource, override) ==
    IF override # "undefined"
    THEN [contributionPoint |->
              findMatchingContribPoint(OverrideCandidates(resource), override, resource),
          conflictingDefault |-> FALSE]
    ELSE LET points == findMatchingContributions(resource)
             associationsFromSetting == getAssociationsForResource(resource)
             Possible(i) ==
                 /\ priorityToRank(contributionPoints[i].priority)
                       >= priorityToRank("builtin")
                 /\ contributionPoints[i].id # DEFAULT_EDITOR_ASSOCIATION.id
             possibleContributionPoints == SelectSeq(points, Possible)
         IN  [contributionPoint |->
                  findMatchingContribPoint(points,
                      selectedViewType(possibleContributionPoints, associationsFromSetting),
                      resource),
              conflictingDefault |->
                  conflictingDefault(associationsFromSetting,
                                     possibleContributionPoints)]

\* the editors passed in: a plain file editor has no viewType
EditorInputs == [resource : Resources \cup {NoResource}, viewType : {"undefined", "a"}]

\* options.override: absent, EditorOverride.DISABLED, or the id of an editor
Overrides == {"undefined", "DISABLED", "default", "b"}

\* editorInfo.describes(editor) of contribution i: the editor is of the
\* kind the contribution creates
describes_Never(i, editor) == FALSE

describes(i, editor) ==
    IF editor.viewType = "undefined"
    THEN contributionPoints[i].id = DEFAULT_EDITOR_ASSOCIATION.id
    ELSE contributionPoints[i].id = editor.viewType

\* what a call returned: result is "throws", "unchanged" (the editor,
\* options and group passed in), "undefined", or "overridden" with the id of
\* the editor created; prompted tells whether the conflicting-default
\* dialog was shown
Outcome(editor, o, result, g, created, prompted) ==
    [resource |-> editor.resource, viewType |-> editor.viewType, override |-> o,
     result |-> result, contributionPoint |-> g.contributionPoint,
     conflictingDefault |-> g.conflictingDefault,
     editor |-> created, prompted |-> prompted]

NoSelection == [contributionPoint |-> NoContribution, conflictingDefault |-> FALSE]

\* no call has returned since the service last changed
NoCall ==
    Outcome([resource |-> NoResource, viewType |-> "undefined"], "undefined",
            "none", NoSelection, "", FALSE)

\* what resolveEditorOverride returns for an editor that is no
\* DiffEditorInput and options whose override is not EditorOverride.PICK.
\* The editor is created by createEditorInput of the selected contribution;
\* prompted tells that doHandleConflictingDefaults was called.
\* options?.override === EditorOverride.DISABLED
isDisabled_Never(o) == FALSE

isDisabled(o) == o = "DISABLED"

ResolveOutcome(editor, o) ==
    IF isDisabled(o)
    THEN Outcome(editor, o, "throws", NoSelection, "", FALSE)
    ELSE IF editor.resource = NoResource
    THEN Outcome(editor, o, "unchanged", NoSelection, "", FALSE)
    ELSE LET override == IF o # "undefined" THEN o ELSE editor.viewType
             g == getContributionPoint(editor.resource, override)
         IN  IF g.contributionPoint = NoContribution
             THEN Outcome(editor, o, "unchanged", g, "", FALSE)
             ELSE IF describes(g.contributionPoint, editor)
             THEN Outcome(editor, o, "undefined", g, "", FALSE)
             ELSE Outcome(editor, o, "overridden", g,
                          contributionPoints[g.contributionPoint].id,
                          g.conflictingDefault)

\* resolveEditorOverride while no editor is open and no choice is stored
resolveEditorOverride ==
    /\ \E editor \in EditorInputs, o \in Overrides :
        resolved' = ResolveOutcome(editor, o)
    /\ UNCHANGED <<contributionPoints, associations>>

registerContributionPoint ==
    /\ Len(contributionPoints) < MaxContributions
    /\ \E c \in Contributions : contributionPoints' = Append(contributionPoints, c)
    /\ resolved' = NoCall
    /\ UNCHANGED associations

\* the new setting object keeps the place of a pattern it already has
updateUserAssociations ==
    /\ \E globPattern \in Globs, editorID \in AssociationIds :
        LET At == {i \in 1..Len(associations) :
                      associations[i].filenamePattern = globPattern}
        IN  associations' =
                IF At = {}
                THEN Append(associations,
                        [filenamePattern |-> globPattern, viewType |-> editorID])
                ELSE [i \in 1..Len(associations) |->
                        IF i \in At
                        THEN [associations[i] EXCEPT !.viewType = editorID]
                        ELSE associations[i]]
    /\ resolved' = NoCall
    /\ UNCHANGED contributionPoints

OInit ==
    /\ contributionPoints = <<>>
    /\ associations = <<>>
    /\ resolved = NoCall

\* registerContributionPoint for the contributions and the bound of one of
\* the specifications below
register(inputs, bound) ==
    /\ Len(contributionPoints) < bound
    /\ \E c \in inputs : contributionPoints' = Append(contributionPoints, c)
    /\ resolved' = NoCall
    /\ UNCHANGED associations

\* the disposable registerContributionPoint returned for registration i:
\* remove() takes the contribution out of the array of its key; the key
\* stays in the map
dispose ==
    /\ \E i \in (1..Len(contributionPoints)) \ disposed : disposed' = disposed \cup {i}
    /\ resolved' = NoCall
    /\ UNCHANGED <<contributionPoints, associations>>

MaxPrompts == 3

\* `*${extname(resource)}`
globForResource(resource) == IF resource = "f.a" THEN "*.a" ELSE "*.b"

StoredGlobs == {"*.a", "*.b"}

GroupIds == {1, 2, 3}

\* the editor inputs that get opened: two of one resource and view type,
\* and one of another resource and view type
OpenedEditors ==
    [e \in 1..3 |->
        IF e = 3 THEN [resource |-> "f.b", viewType |-> "a"]
                 ELSE [resource |-> "f.a", viewType |-> "b"]]

\* the editor ids whose contributions declare options.singlePerResource
SinglePerResource == {"b"}

\* findExistingEditorsForResource: group by group, tab by tab
findExistingEditorsForResource(resource, viewType) ==
    LET Is(e) == /\ OpenedEditors[e].resource = resource
                 /\ OpenedEditors[e].viewType = viewType
        In(g) == LET es == SelectSeq(groups[g], Is)
                 IN  [k \in 1..Len(es) |-> [editor |-> es[k], group |-> g]]
    IN  In(1) \o In(2) \o In(3)

\* the groups after closeExistingEditorsForResource
closeExistingEditorsForResource(resource, viewType, targetGroup) ==
    LET found == findExistingEditorsForResource(resource, viewType)
    IN  IF found = <<>> THEN groups
        ELSE LET editorToUse == found[1]
                 Other(e) == \E k \in 1..Len(found) :
                                found[k].editor = e /\ e # editorToUse.editor
                 Kept(e) == ~Other(e)
                 replaced == [g \in GroupIds |-> SelectSeq(groups[g], Kept)]
                 NotUsed(e) == e # editorToUse.editor
             IN  IF targetGroup # editorToUse.group
                 THEN [replaced EXCEPT ![editorToUse.group] =
                          SelectSeq(replaced[editorToUse.group], NotUsed)]
                 ELSE replaced

MaxWaiting == 2

NoEffects ==
    [group |-> 0, shown |-> FALSE, waited |-> FALSE, early |-> FALSE,
     late |-> FALSE, registered |-> FALSE]

\* resourceMatchesCache
resourceMatchesCache(resource) ==
    /\ cache.defined
    /\ \E cacheEntry \in cache.globs : globMatchesResource(cacheEntry, resource)

\* this.cache && editor.resource && this.resourceMatchesCache(editor.resource)
MustWait_Never(editor) == FALSE

MustWait(editor) ==
    /\ cache.defined
    /\ editor.resource # NoResource
    /\ resourceMatchesCache(editor.resource)

\* a call as it is made: early tells that its resource matches a glob of
\* the startup cache while the extensions have not registered, late that
\* they had registered when it was made
NewCall(editor, o, group) ==
    [editor |-> editor, o |-> o, group |-> group,
     early |-> /\ ~extensionsRegistered
               /\ editor.resource # NoResource
               /\ \E g \in cache.globs : globMatchesResource(g, editor.resource),
     late |-> extensionsRegistered]

\* resolveEditorOverride from the check of EditorOverride.DISABLED on:
\* doOverrideEditorInput closes editors for a singlePerResource
\* contribution, and doHandleConflictingDefaults shows its prompt unless a
\* choice is stored for the editor created
Complete(c, waited) ==
    \E out \in {ResolveOutcome(c.editor, c.o)} :
    \E shown \in {/\ out.result = "overridden" /\ out.prompted
                  /\ out.editor \notin storedChoices[globForResource(out.resource)]} :
    \E points \in {findMatchingContributions(out.resource)} :
        /\ shown => Len(notifications) < MaxPrompts
        /\ resolved' = out
        /\ groups' = IF out.result = "overridden" /\ out.editor \in SinglePerResource
                     THEN closeExistingEditorsForResource(out.resource, out.editor, c.group)
                     ELSE groups
        /\ notifications' =
              IF shown
              THEN Append(notifications,
                      [glob |-> globForResource(out.resource),
                       viewType |-> out.editor,
                       ids |-> {contributionPoints[points[k]].id : k \in 1..Len(points)},
                       stored |-> storedChoices,
                       open |-> TRUE])
              ELSE notifications
        /\ effects' = [group |-> c.group, shown |-> shown, waited |-> waited,
                       early |-> c.early, late |-> c.late,
                       registered |-> extensionsRegistered]

\* resolveEditorOverride(editor, options, group) with everything it does
resolveEditorOverrideIn(editors, overrides) ==
    /\ \E editor \in editors, o \in overrides, group \in GroupIds :
        LET c == NewCall(editor, o, group)
        IN  IF MustWait(editor)
            THEN /\ Len(waiting) < MaxWaiting
                 /\ waiting' = Append(waiting, c)
                 /\ UNCHANGED <<resolved, groups, notifications, effects>>
            ELSE /\ Complete(c, FALSE)
                 /\ UNCHANGED waiting
    /\ UNCHANGED <<contributionPoints, associations, disposed, storedChoices,
                   cache, extensionsRegistered>>

\* a call goes on after `await whenInstalledExtensionsRegistered()`
resumeResolve ==
    /\ extensionsRegistered
    /\ \E w \in 1..Len(waiting) :
        /\ Complete(waiting[w], TRUE)
        /\ waiting' = [k \in 1..(Len(waiting) - 1) |->
                          IF k < w THEN waiting[k] ELSE waiting[k + 1]]
    /\ UNCHANGED <<contributionPoints, associations, disposed, storedChoices,
                   cache, extensionsRegistered>>

\* the extension service has registered the installed extensions: the
\* promise resolves and onDidRegisterExtensions fires. The globs of the
\* dropped cache stay in the record, where no code reads them.
onDidRegisterExtensions ==
    /\ ~extensionsRegistered
    /\ extensionsRegistered' = TRUE
    /\ cache' = [cache EXCEPT !.defined = FALSE]
    /\ resolved' = NoCall
    /\ effects' = NoEffects
    /\ UNCHANGED <<contributionPoints, associations, disposed, storedChoices,
                   notifications, groups, waiting>>

\* the user chooses 'Keep' in a prompt or closes it:
\* writeCurrentEditorsToStorage stores the object read when the prompt was
\* made, with the entry of its glob replaced
keepOrClose ==
    /\ \E n \in 1..Len(notifications) :
        /\ notifications[n].open
        /\ storedChoices' = [notifications[n].stored EXCEPT
                                ![notifications[n].glob] = notifications[n].ids]
        /\ notifications' = [notifications EXCEPT ![n].open = FALSE]
    /\ resolved' = NoCall
    /\ effects' = NoEffects
    /\ UNCHANGED <<contributionPoints, associations, disposed, groups,
                   cache, extensionsRegistered, waiting>>

\* an editor input is opened in a group that does not show it yet; one
\* input can be open in several groups
openEditor ==
    /\ \E g \in GroupIds, e \in DOMAIN OpenedEditors :
        /\ \A k \in 1..Len(groups[g]) : groups[g][k] # e
        /\ groups' = [groups EXCEPT ![g] = Append(groups[g], e)]
    /\ resolved' = NoCall
    /\ effects' = NoEffects
    /\ UNCHANGED <<contributionPoints, associations, disposed, storedChoices,
                   notifications, cache, extensionsRegistered, waiting>>

XInit ==
    /\ disposed = {}
    /\ storedChoices = [g \in StoredGlobs |-> {}]
    /\ notifications = <<>>
    /\ groups = [g \in GroupIds |-> <<>>]
    /\ effects = NoEffects
    /\ extensionsRegistered = FALSE
    /\ waiting = <<>>

\* the constructor found no cache in storage
CInit == cache = [defined |-> TRUE, globs |-> {}]

\* the ids of rendererData; extends names one of them or is absent
LoadedRenderers == {"ra", "rb", "rc"}

NoExtends == "none"

\* no renderer extends another and none was asked to load
LInit ==
    /\ rendererData = [r \in LoadedRenderers |-> NoExtends]
    /\ loadPromise = [r \in LoadedRenderers |-> "none"]

Init == WInit /\ NInit /\ OInit /\ XInit /\ CInit /\ LInit

StartStep == \E a \in ActIds : Start(a)

PropagateStep == \E a \in ActIds : Propagate(a)

ResumeStep == \E a \in ActIds : Resume(a)

\* the queue: messages that enqueue and cancel, and the renderer they wait for
QueueNext ==
    \/ HtmlMessage(QueueHtmlInputs, MaxActions) /\ UNCHANGED <<lvars, nvars, ovars, xvars>>
    \/ HideOutputMessage(MaxActions) /\ UNCHANGED <<lvars, nvars, ovars, xvars>>
    \/ ShowOutputMessage(MaxActions) /\ UNCHANGED <<lvars, nvars, ovars, xvars>>
    \/ StartStep /\ UNCHANGED <<lvars, nvars, ovars, xvars>>
    \/ PropagateStep /\ UNCHANGED <<lvars, nvars, ovars, xvars>>
    \/ ResumeStep /\ UNCHANGED <<lvars, nvars, ovars, xvars>>
    \/ ClearOutputMessage /\ UNCHANGED <<lvars, nvars, ovars, xvars>>
    \/ ClearMessage /\ UNCHANGED <<lvars, nvars, ovars, xvars>>
    \/ RendererSettle(QueueRendererOutcomes) /\ UNCHANGED <<lvars, nvars, ovars, xvars>>

SpecQueue == Init /\ [][QueueNext]_vars

(***************************************************************************)
(* Claims about the queue, checked under SpecQueue                         *)
(***************************************************************************)

\* the body of action a was invoked and its promise has not settled
InProgress(a) == acts[a].ran /\ ~Settled(acts[a].st)

\* action a can no longer start: it ran, was skipped, or was dropped
NeverStartsLater(a) == acts[a].st # "pending" \/ acts[a].cxlPending # "no"

\* the actions of one output id start in the order they were enqueued
StartOrder ==
    \A a \in ActIds, b \in ActIds :
        (a < b /\ acts[a].id = acts[b].id /\ acts[b].ran) => NeverStartsLater(a)

\* C1 as stated: for every output id the actions start in enqueue order, an
\* action starts only after the action enqueued before it for the same id
\* has settled, and no two actions of one output id are in progress at once.
C1_OrderedPerOutputId ==
    /\ StartOrder
    /\ \A a \in ActIds, b \in ActIds :
        (a < b /\ acts[a].id = acts[b].id /\ acts[b].ran) => Settled(acts[a].st)
    /\ \A a \in ActIds, b \in ActIds :
        (a # b /\ acts[a].id = acts[b].id) => ~(InProgress(a) /\ InProgress(b))

\* C1 amended: for every output id the actions start in enqueue order; among
\* the actions that share a queue record (those enqueued for the id with no
\* cancelOutput / cancelAll in between) an action starts only after the one
\* enqueued before it has settled, and no two of them are in progress at once.
C1_OrderedPerRecord ==
    /\ StartOrder
    /\ \A a \in ActIds, b \in ActIds :
        (a < b /\ acts[a].rec = acts[b].rec /\ acts[b].ran) => Settled(acts[a].st)
    /\ \A a \in ActIds, b \in ActIds :
        (a # b /\ acts[a].rec = acts[b].rec) => ~(InProgress(a) /\ InProgress(b))

\* a chained action ran after the html action before it waited for the
\* renderer and completed
C1_Witness ==
    \E a \in ActIds, b \in ActIds :
        /\ a < b /\ acts[a].rec = acts[b].rec
        /\ acts[a].kind = "html" /\ acts[a].st = "fulfilled" /\ acts[a].node # "none"
        /\ acts[b].ran /\ ~acts[b].own

\* C2: once cancelOutput(id) has run, no html action enqueued for id before
\* it appends its output node or calls the renderer; an action that was
\* awaiting its loads sees state.cancelled and returns.
C2_CancelStopsRendering ==
    \A a \in ActIds :
        (acts[a].kind = "html" /\ acts[a].late) => (acts[a].node = "none" /\ ~acts[a].rc)

\* C3: an action that had not started when cancelOutput or cancelAll
\* cancelled its record is never run.
C3_CancelledNeverRuns ==
    \A a \in ActIds : acts[a].cxlPending # "no" => ~acts[a].ran

\* cancelAll cancelled the records of both output ids at once, and the
\* action that was waiting behind an action in progress was skipped
C3_Witness ==
    \E a \in ActIds, b \in ActIds, c \in ActIds :
        /\ acts[a].rec = acts[b].rec /\ a < b
        /\ acts[b].cxlPending = "cancelAll" /\ acts[b].st = "fulfilled" /\ ~acts[b].ran
        /\ acts[c].id # acts[a].id /\ recs[acts[c].rec].cancelled
        /\ \A id \in OutputIds : outputs[id] = NoRec

\* C4: no starvation: an action whose record was not cancelled starts once
\* every action enqueued before it in the record has settled, whether those
\* fulfilled or rejected. Stated on the states with no callback left to run.
C4_NoStarvation ==
    \A a \in ActIds :
        ( /\ ~recs[acts[a].rec].cancelled
          /\ \A b \in 1..(a - 1) : acts[b].rec = acts[a].rec => Settled(acts[b].st)
          /\ NoMicrotask )
        => acts[a].ran


\* rendering: every 'html' message, with renderer and preload loading
RenderNext ==
    \/ HtmlMessage(HtmlInputs, MaxRenderActions) /\ UNCHANGED <<lvars, nvars, ovars, xvars>>
    \/ HideOutputMessage(MaxRenderActions) /\ UNCHANGED <<lvars, nvars, ovars, xvars>>
    \/ ShowOutputMessage(MaxRenderActions) /\ UNCHANGED <<lvars, nvars, ovars, xvars>>
    \/ StartStep /\ UNCHANGED <<lvars, nvars, ovars, xvars>>
    \/ PropagateStep /\ UNCHANGED <<lvars, nvars, ovars, xvars>>
    \/ ResumeStep /\ UNCHANGED <<lvars, nvars, ovars, xvars>>
    \/ ClearOutputMessage /\ UNCHANGED <<lvars, nvars, ovars, xvars>>
    \/ ClearMessage /\ UNCHANGED <<lvars, nvars, ovars, xvars>>
    \/ PreloadMessage /\ UNCHANGED <<lvars, nvars, ovars, xvars>>
    \/ PreloadSettle /\ UNCHANGED <<lvars, nvars, ovars, xvars>>
    \/ RendererSettle(RendererOutcomes) /\ UNCHANGED <<lvars, nvars, ovars, xvars>>

SpecRender == Init /\ [][RenderNext]_vars

(***************************************************************************)
(* Claims about the body of the 'html' action, checked under SpecRender    *)
(***************************************************************************)

\* loading the renderer of action x or one of its required preloads failed:
\* the promise was rejected, or the preload was never registered
LoadFailed(x) ==
    \/ RendererResult(x) \in {"Error", "other"}
    \/ \E u \in x.req : PreloadResult(x, u) \in {"Error", "other"}

\* action a is an html action with non-HTML content whose body has run past
\* the check of state.cancelled and has ended
RenderedNonHtml(a) ==
    /\ acts[a].kind = "html" /\ ~acts[a].isHtml
    /\ acts[a].ran /\ Settled(acts[a].st)
    /\ acts[a].own \/ ~acts[a].late

\* C8: for non-HTML content, when loading the renderer or a required preload
\* failed, renderCell is not called and the errors are written into the
\* node; in every case the node is appended and the action does not reject,
\* also when renderCell throws.
C8_LoadErrorsShownInNode ==
    \A a \in ActIds :
        RenderedNonHtml(a) =>
            /\ LoadFailed(acts[a]) => (~acts[a].rc /\ acts[a].node = "errors")
            /\ acts[a].st = "fulfilled"
            /\ acts[a].node # "none"

\* loading the release notes: the calls and the answers of the request service
NotesNext ==
    \/ loadReleaseNotes /\ UNCHANGED <<lvars, wvars, ovars, xvars>>
    \/ RequestFails /\ UNCHANGED <<lvars, wvars, ovars, xvars>>
    \/ RequestAnswers /\ UNCHANGED <<lvars, wvars, ovars, xvars>>

SpecNotes == Init /\ [][NotesNext]_vars

(***************************************************************************)
(* Claims about loadReleaseNotes, checked under SpecNotes                  *)
(***************************************************************************)

\* the promise of fetch f is pending or fulfilled
Live(f) == fetches[f].st \in {"inflight", "ok"}

\* C5: while a fetch for a version is in flight or has succeeded, a further
\* loadReleaseNotes(version) issues no request and returns the promise of
\* that fetch; overlapping calls for one version cause at most one request.
C5_OneRequestPerVersion ==
    /\ \A f \in 1..Len(fetches) : Live(f) => releaseNotesCache[fetches[f].version] = f
    /\ \A c \in 1..Len(calls) :
        calls[c].cachedBefore # NoFetch =>
            (~calls[c].newRequest /\ calls[c].ret = calls[c].cachedBefore)
    /\ \A f \in 1..Len(fetches), g \in 1..Len(fetches) :
        (f # g /\ fetches[f].version = fetches[g].version) => ~(Live(f) /\ Live(g))

\* three overlapping calls for one version share the one request in flight
C5_Witness ==
    /\ Len(calls) = 3
    /\ \A c \in 1..3 : calls[c].version = calls[1].version /\ calls[c].ret = 1
    /\ Len(fetches) = 1 /\ fetches[1].st = "inflight"

\* the response is a text that is empty or does not start with '#' and a
\* whitespace character
NotReleaseNotes(resp) ==
    resp = <<>> \/ Len(resp) < 2 \/ resp[1] # "#" \/ resp[2] \notin Whitespace

\* C6: a fetch whose request failed or whose text is empty or does not
\* start with '#' and whitespace rejects and its cache entry is removed; a
\* call for a valid version that finds no entry issues a new request; and an
\* entry leaves the cache only in the step in which its own fetch fails.
C6_FailureClearsCache ==
    /\ [](\A f \in 1..Len(fetches) :
            (fetches[f].resp = "error"
                \/ (fetches[f].resp = "text" /\ NotReleaseNotes(fetches[f].body)))
            => (fetches[f].st = "failed" /\ releaseNotesCache[fetches[f].version] # f))
    /\ [](\A c \in 1..Len(calls) :
            (VersionMatch(calls[c].version) # 0 /\ calls[c].cachedBefore = NoFetch)
            => (calls[c].newRequest /\ calls[c].ret # NoFetch))
    /\ [][\A v \in Versions :
            (releaseNotesCache[v] # NoFetch /\ releaseNotesCache'[v] # releaseNotesCache[v])
            => (/\ fetches[releaseNotesCache[v]].st = "inflight"
                /\ fetches'[releaseNotesCache[v]].st = "failed"
                /\ releaseNotesCache'[v] = NoFetch)]_vars

\* a fetch was rejected for its content, and a later call for the same
\* version issued a second request that is now cached
C6_Witness ==
    \E f \in 1..Len(fetches), c \in 1..Len(calls) :
        /\ fetches[f].st = "failed" /\ fetches[f].body = <<"#", "x">>
        /\ calls[c].version = fetches[f].version
        /\ calls[c].newRequest /\ calls[c].ret > f
        /\ releaseNotesCache[fetches[f].version] = calls[c].ret

\* showing the release notes
ShowNext ==
    \/ show /\ UNCHANGED <<lvars, wvars, ovars, xvars>>
    \/ showResumed /\ UNCHANGED <<lvars, wvars, ovars, xvars>>
    \/ disposeReleaseNotes /\ UNCHANGED <<lvars, wvars, ovars, xvars>>

SpecShow == Init /\ [][ShowNext]_vars

(***************************************************************************)
(* Claims about show, checked under SpecShow                               *)
(***************************************************************************)

\* C7: show(accessor, version) renders the text loadReleaseNotes(version)
\* returns for the requested version; when the load fails, show rejects and
\* creates or updates no webview.
C7_ShowRendersLoadedNotes ==
    \A s \in 1..Len(shows) :
        shows[s].st = "done" =>
            /\ shows[s].load # NoFetch
            /\ fetches[shows[s].load].st = "ok"
            /\ fetches[shows[s].load].version = shows[s].version
            /\ shows[s].text = fetches[shows[s].load].text


\* the contribution registry and the calls of resolveEditorOverride
OverrideNext ==
    \/ registerContributionPoint /\ UNCHANGED <<lvars, wvars, nvars, xvars>>
    \/ updateUserAssociations /\ UNCHANGED <<lvars, wvars, nvars, xvars>>
    \/ resolveEditorOverride /\ UNCHANGED <<lvars, wvars, nvars, xvars>>

SpecOverride == Init /\ [][OverrideNext]_vars

(***************************************************************************)
(* Claims about getContributionPoint, checked under SpecOverride           *)
(***************************************************************************)

\* a call has returned that had a resource and no explicit override
NoOverrideCall ==
    /\ resolved.result \notin {"none", "throws"}
    /\ resolved.resource # NoResource
    /\ resolved.override = "undefined" /\ resolved.viewType = "undefined"

\* the matching contributions of priority builtin or above that are not
\* the default text editor, highest rank first
Preferred(resource) ==
    LET Is(i) == /\ priorityToRank(contributionPoints[i].priority)
                        >= priorityToRank("builtin")
                 /\ contributionPoints[i].id # "default"
    IN  SelectSeq(findMatchingContributions(resource), Is)

PreferredViewType(resource) ==
    LET p == Preferred(resource)
        a == getAssociationsForResource(resource)
    IN  IF p # <<>> /\ contributionPoints[p[1]].priority = "exclusive"
        THEN contributionPoints[p[1]].id
        ELSE IF a # <<>> THEN a[1].viewType
        ELSE IF p # <<>> THEN contributionPoints[p[1]].id
        ELSE "undefined"

\* contribution i has no canSupportResource, or it accepts the resource
Supports(i, resource) ==
    contributionPoints[i].hasCanSupport => resource \in contributionPoints[i].supports

ExplicitOverrideCall ==
    /\ resolved.result \notin {"none", "throws"}
    /\ resolved.resource # NoResource
    /\ resolved.override # "undefined" \/ resolved.viewType # "undefined"

\* the override id of the call: options.override, else the input's viewType
OverrideId ==
    IF resolved.override # "undefined" THEN resolved.override ELSE resolved.viewType

\* C10: with an explicit override id the contribution selected has that id,
\* it is found among all registered contributions whether or not their glob
\* matches the resource, no conflicting-default prompt is raised, and
\* override 'default' on an editor of another type gives the default editor.
C10_ExplicitOverride ==
    ExplicitOverrideCall =>
        LET sel == resolved.contributionPoint
            able == {i \in 1..Len(contributionPoints) :
                        contributionPoints[i].id = OverrideId
                            /\ Supports(i, resolved.resource)}
        IN  /\ sel # NoContribution => sel \in able
            /\ able # {} => sel # NoContribution
            /\ ~resolved.conflictingDefault /\ ~resolved.prompted
            /\ (able # {} /\ resolved.override = "default"
                    /\ resolved.viewType # "undefined")
                => (resolved.result = "overridden" /\ resolved.editor = "default")

\* an editor of view type "a" was opened again with override 'default' and
\* the default editor was created
C10_Witness ==
    /\ ExplicitOverrideCall
    /\ resolved.viewType = "a" /\ resolved.override = "default"
    /\ resolved.result = "overridden" /\ resolved.editor = "default"

(***************************************************************************)
(* Registering and disposing contribution points                           *)
(***************************************************************************)

MaxRegistrations == 3

\* the contributions registered and disposed: editors of equal priority
RegistryContributions ==
    { [globPattern |-> "*.a", id |-> "a", priority |-> "builtin",
       hasCanSupport |-> FALSE, supports |-> {}],
      [globPattern |-> "*", id |-> "b", priority |-> "builtin",
       hasCanSupport |-> FALSE, supports |-> {}],
      [globPattern |-> "*", id |-> "default", priority |-> "builtin",
       hasCanSupport |-> FALSE, supports |-> {}] }

RegistryNext ==
    \/ register(RegistryContributions, MaxRegistrations)
          /\ UNCHANGED <<lvars, wvars, nvars, xvars>>
    \/ dispose /\ UNCHANGED <<lvars, wvars, nvars, storedChoices, notifications, groups, effects,
                             cache, extensionsRegistered, waiting>>
    \/ resolveEditorOverride /\ UNCHANGED <<lvars, wvars, nvars, xvars>>

SpecRegistry == Init /\ [][RegistryNext]_vars

\* registration i is the first under its key among those never disposed
FirstKeptOfKey(i) ==
    /\ i \notin disposed
    /\ \A j \in 1..(i - 1) :
          j \in disposed
             \/ contributionPoints[j].globPattern # contributionPoints[i].globPattern

\* what getEditorIds gives when the disposed registrations were never made
EditorIdsWithoutDisposed(resource) ==
    LET Matches(i) == globMatchesResource(contributionPoints[i].globPattern, resource)
        points == sortByRank(SelectSeq(flatten(SelectSeq(Indices, FirstKeptOfKey)), Matches))
    IN  [k \in 1..Len(points) |-> contributionPoints[points[k]].id]

\* C11: a registered contribution is offered by getEditorIds for every
\* resource its glob matches, and once its disposable is disposed
\* getEditorIds gives what it gives without that registration, whatever
\* other registrations were made in between.
C11_DisposeUndoesRegister ==
    \A resource \in Resources :
        /\ \A i \in (1..Len(contributionPoints)) \ disposed :
              globMatchesResource(contributionPoints[i].globPattern, resource)
                  => \E k \in 1..Len(getEditorIds(resource)) :
                        getEditorIds(resource)[k] = contributionPoints[i].id
        /\ getEditorIds(resource) = EditorIdsWithoutDisposed(resource)

(***************************************************************************)
(* The conflicting-defaults prompt                                         *)
(***************************************************************************)

\* two editors that both open every resource by default
PromptContributions ==
    { [globPattern |-> "*", id |-> "a", priority |-> "default",
       hasCanSupport |-> FALSE, supports |-> {}],
      [globPattern |-> "*", id |-> "b", priority |-> "builtin",
       hasCanSupport |-> FALSE, supports |-> {}] }

\* plain file editors opened without override
PromptEditors == [resource : Resources, viewType : {"undefined"}]

PromptNext ==
    \/ register(PromptContributions, MaxContributions) /\ effects' = NoEffects
          /\ UNCHANGED <<lvars, wvars, nvars, disposed, storedChoices, notifications, groups,
                          cache, extensionsRegistered, waiting>>
    \/ resolveEditorOverrideIn(PromptEditors, {"undefined"}) /\ UNCHANGED <<lvars, wvars, nvars>>
    \/ keepOrClose /\ UNCHANGED <<lvars, wvars, nvars>>

SpecPrompt == Init /\ [][PromptNext]_vars

\* C12: after 'Keep' or closing the prompt made for an editor and a
\* resource, no later call that creates the same editor for a resource of
\* that extension shows the prompt, in whatever order concurrently open
\* prompts were answered.
C12_KeptChoiceNotAskedAgain ==
    \A n \in 1..Len(notifications) :
        (/\ ~notifications[n].open
         /\ resolved.result = "overridden"
         /\ globForResource(resolved.resource) = notifications[n].glob
         /\ resolved.editor = notifications[n].viewType)
        => ~effects.shown

(***************************************************************************)
(* Opening editors while the extensions are still registering              *)
(***************************************************************************)

\* the constructor read a cache of glob patterns from storage
StartupInit ==
    /\ WInit /\ NInit /\ OInit /\ XInit /\ LInit
    /\ \E globs \in SUBSET Globs : cache = [defined |-> TRUE, globs |-> globs]

\* the editors that extensions register while the workbench starts: one
\* opens *.a by default, one is offered for every resource
StartupContributions ==
    { [globPattern |-> "*.a", id |-> "a", priority |-> "builtin",
       hasCanSupport |-> FALSE, supports |-> {}],
      [globPattern |-> "*", id |-> "b", priority |-> "option",
       hasCanSupport |-> FALSE, supports |-> {}] }

StartupNext ==
    \/ register(StartupContributions, MaxContributions) /\ effects' = NoEffects
          /\ UNCHANGED <<lvars, wvars, nvars, disposed, storedChoices, notifications, groups,
                          cache, extensionsRegistered, waiting>>
    \/ resolveEditorOverrideIn(PromptEditors, {"undefined"}) /\ UNCHANGED <<lvars, wvars, nvars>>
    \/ resumeResolve /\ UNCHANGED <<lvars, wvars, nvars>>
    \/ onDidRegisterExtensions /\ UNCHANGED <<lvars, wvars, nvars>>

SpecStartup == StartupInit /\ [][StartupNext]_vars

\* C13: a call for a resource that matches a glob of the startup cache,
\* made before the extensions have registered, looks up the contribution
\* points only once whenInstalledExtensionsRegistered has resolved; once
\* onDidRegisterExtensions has fired the cache is gone and no call waits.
C13_WaitsForExtensionsOnce ==
    /\ effects.group # 0 =>
          /\ effects.early => (effects.waited /\ effects.registered)
          /\ effects.late => ~effects.waited
    /\ \A w \in 1..Len(waiting) : waiting[w].early /\ ~waiting[w].late
    /\ extensionsRegistered => ~cache.defined

\* a call made early for a cached glob has waited and then replaced the
\* editor with one an extension registered in the meantime
C13_Witness ==
    /\ effects.early /\ effects.waited /\ effects.registered
    /\ resolved.result = "overridden"

(***************************************************************************)
(* Contributions that allow one editor per resource                        *)
(***************************************************************************)

\* an editor that declares singlePerResource, and one that does not
GroupContributions ==
    { [globPattern |-> "*", id |-> "b", priority |-> "builtin",
       hasCanSupport |-> FALSE, supports |-> {}],
      [globPattern |-> "*", id |-> "a", priority |-> "option",
       hasCanSupport |-> FALSE, supports |-> {}] }

\* a plain file editor of the resource that has editors open
GroupEditors == {[resource |-> "f.a", viewType |-> "undefined"]}

GroupsNext ==
    \/ register(GroupContributions, MaxContributions) /\ effects' = NoEffects
          /\ UNCHANGED <<lvars, wvars, nvars, disposed, storedChoices, notifications, groups,
                          cache, extensionsRegistered, waiting>>
    \/ openEditor /\ UNCHANGED <<lvars, wvars, nvars>>
    \/ resolveEditorOverrideIn(GroupEditors, {"undefined"}) /\ UNCHANGED <<lvars, wvars, nvars>>

SpecGroups == Init /\ [][GroupsNext]_vars

\* the tabs that show an editor of the resource and view type of the
\* editor the last call created
Remaining ==
    {t \in GroupIds \X DOMAIN OpenedEditors :
        /\ \E k \in 1..Len(groups[t[1]]) : groups[t[1]][k] = t[2]
        /\ OpenedEditors[t[2]].resource = resolved.resource
        /\ OpenedEditors[t[2]].viewType = resolved.editor}

\* C14 (the editors that remain): when the call has created the editor of a
\* contribution that declares singlePerResource, at most one editor of that
\* resource and view type that was open is still open in all the groups,
\* and if there is one it is in the target group.
C14_SingleEditorPerResource ==
    (resolved.result = "overridden" /\ resolved.editor \in SinglePerResource)
        => /\ Cardinality(Remaining) <= 1
           /\ \A t \in Remaining : t[1] = effects.group

(***************************************************************************)
(* Further claims about the selection, checked under SpecOverride          *)
(***************************************************************************)

\* the user has associated a pattern that matches the resource with the
\* editor id of registration i
AssociatedByUser(i, resource) ==
    \E k \in 1..Len(associations) :
        /\ globMatchesResource(associations[k].filenamePattern, resource)
        /\ associations[k].viewType = contributionPoints[i].id

\* registration i is among findMatchingContributions(resource)
IsMatching(i, resource) ==
    \E k \in 1..Len(findMatchingContributions(resource)) :
        findMatchingContributions(resource)[k] = i

\* C15: findMatchingContributions(resource) contains a contribution exactly
\* when its glob matches the resource or a user association whose pattern
\* matches the resource names its editor id; an association that names no
\* registered editor is not among the associations of the resource.
C15_UserAssociationRespected ==
    \A resource \in Resources :
        /\ \A i \in (1..Len(contributionPoints)) \ disposed :
              IsMatching(i, resource)
                  <=> (\/ globMatchesResource(contributionPoints[i].globPattern, resource)
                       \/ AssociatedByUser(i, resource))
        /\ \A k \in 1..Len(getAssociationsForResource(resource)) :
              \E i \in (1..Len(contributionPoints)) \ disposed :
                  contributionPoints[i].id = getAssociationsForResource(resource)[k].viewType

\* an editor registered for '*.a' is offered for f.b because the user
\* associated '*' with it, while the other association is not one of f.b
C15_Witness ==
    \E i \in 1..Len(contributionPoints) :
        /\ contributionPoints[i].globPattern = "*.a"
        /\ IsMatching(i, "f.b")
        /\ Len(associations) = 2
        /\ Len(getAssociationsForResource("f.b")) = 1

\* C16: with no explicit override and no matching user association, a call
\* never replaces the editor with one of a contribution of priority
\* 'option' or of the default text editor contribution.
C16_OnlyBuiltinOrHigherByDefault ==
    (/\ NoOverrideCall
     /\ getAssociationsForResource(resolved.resource) = <<>>
     /\ resolved.result = "overridden")
    => /\ contributionPoints[resolved.contributionPoint].priority # "option"
       /\ priorityToRank(contributionPoints[resolved.contributionPoint].priority)
             >= priorityToRank("builtin")
       /\ contributionPoints[resolved.contributionPoint].id # "default"

\* C17: doHandleConflictingDefaults is reached only by a call without
\* explicit override, for a resource no user association matches and for
\* which more than one contribution of priority builtin or above other than
\* the default text editor matches, and only after an editor was created.
C17_PromptOnlyOnConflict ==
    resolved.prompted =>
        /\ NoOverrideCall
        /\ getAssociationsForResource(resolved.resource) = <<>>
        /\ Len(Preferred(resolved.resource)) > 1
        /\ resolved.result = "overridden" /\ resolved.editor # ""
        /\ resolved.conflictingDefault

\* two editors match by default and the prompt was raised for the one created
C17_Witness ==
    /\ resolved.prompted /\ resolved.result = "overridden"
    /\ Len(Preferred(resolved.resource)) = 2

(***************************************************************************)
(* Calls that must leave the workbench as it is                            *)
(***************************************************************************)

\* editors opened plainly or as the editor b, with every kind of override
EffectEditors == [resource : {"f.a"}, viewType : {"undefined", "b"}]

EffectOverrides == {"undefined", "DISABLED", "b"}

\* editors of b for f.a are open: none, one, the same one in two groups, or
\* two of them along with an editor of another resource
OpenAtStart ==
    { [g \in GroupIds |-> <<>>],
      [g \in GroupIds |-> IF g = 1 THEN <<1>> ELSE <<>>],
      [g \in GroupIds |-> IF g = 3 THEN <<>> ELSE <<1>>],
      [g \in GroupIds |-> IF g = 1 THEN <<1>> ELSE IF g = 2 THEN <<2, 3>> ELSE <<>>] }

EffectsInit ==
    /\ WInit /\ NInit /\ OInit /\ CInit /\ LInit
    /\ disposed = {}
    /\ storedChoices = [g \in StoredGlobs |-> {}]
    /\ notifications = <<>>
    /\ groups \in OpenAtStart
    /\ effects = NoEffects
    /\ extensionsRegistered = FALSE
    /\ waiting = <<>>

EffectsNext ==
    \/ register(PromptContributions, MaxContributions) /\ effects' = NoEffects
          /\ UNCHANGED <<lvars, wvars, nvars, disposed, storedChoices, notifications, groups,
                          cache, extensionsRegistered, waiting>>
    \/ resolveEditorOverrideIn(EffectEditors, EffectOverrides) /\ UNCHANGED <<lvars, wvars, nvars>>

SpecEffects == EffectsInit /\ [][EffectsNext]_vars

\* the call that returns in this step created no editor, closed none,
\* showed no prompt and changed neither the setting nor the stored choices
NothingDone ==
    /\ resolved'.editor = "" /\ ~resolved'.prompted /\ ~effects'.shown
    /\ UNCHANGED <<groups, notifications, storedChoices, associations,
                   contributionPoints>>

\* C18: a call with the override EditorOverride.DISABLED throws, and calls
\* no factory, closes no editor, shows no prompt and changes no setting or
\* stored state.
C18_DisabledThrowsWithoutEffect ==
    [][resolved'.override = "DISABLED"
          => (resolved'.result = "throws" /\ NothingDone)]_vars

\* a disabled call for a resource that has an editor of b open while b is
\* registered for it
C18_Witness ==
    /\ resolved.override = "DISABLED" /\ resolved.result = "throws"
    /\ \E i \in 1..Len(contributionPoints) : contributionPoints[i].id = "b"
    /\ \E g \in GroupIds : Len(groups[g]) > 0

\* the contribution the call selected creates the kind of editor that was
\* passed in
SelectedOwnKind ==
    /\ resolved'.contributionPoint # NoContribution
    /\ contributionPoints[resolved'.contributionPoint].id =
          (IF resolved'.viewType = "undefined"
           THEN DEFAULT_EDITOR_ASSOCIATION.id ELSE resolved'.viewType)

Extending(r) == {d \in LoadedRenderers : rendererData[d] = r}

\* _loadPromise has settled: _load returned the api or undefined, or threw
LoadDone(r) == loadPromise[r] \in {"api", "undefined", "rejected"}

\* Renderer.load() of every renderer of D: _load starts, up to its await of
\* runRenderScript, for those that have no _loadPromise yet
StartLoads(D, promises) ==
    [r \in LoadedRenderers |->
        IF r \in D /\ promises[r] = "none" THEN "script" ELSE promises[r]]

\* renderers.load(id)
load ==
    /\ \E r \in LoadedRenderers :
        /\ loadPromise[r] = "none"
        /\ loadPromise' = StartLoads({r}, loadPromise)
    /\ UNCHANGED rendererData

\* runRenderScript settles: without a module _load returns undefined, with
\* one it calls module.activate
runRenderScriptSettles ==
    /\ \E r \in LoadedRenderers, out \in {"module", "undefined", "rejected"} :
        /\ loadPromise[r] = "script"
        /\ loadPromise' = [loadPromise EXCEPT
              ![r] = IF out = "module" THEN "activate" ELSE out]
    /\ UNCHANGED rendererData

\* module.activate settles: when it returned the api, _load calls
\* loadExtension for every renderer that extends this one, each of which
\* calls load() of that renderer, and awaits all of them
activateSettles ==
    /\ \E r \in LoadedRenderers, out \in {"api", "rejected"} :
        /\ loadPromise[r] = "activate"
        /\ loadPromise' =
              IF out = "rejected"
              THEN [loadPromise EXCEPT ![r] = "rejected"]
              ELSE StartLoads(Extending(r),
                              [loadPromise EXCEPT ![r] = "extensions"])
    /\ UNCHANGED rendererData

\* Promise.all of the loadExtension promises, each with its error caught,
\* resolves when load() of every extending renderer has settled; _load then
\* returns the api
extensionsSettle ==
    /\ \E r \in LoadedRenderers :
        /\ loadPromise[r] = "extensions"
        /\ \A d \in Extending(r) : LoadDone(d)
        /\ loadPromise' = [loadPromise EXCEPT ![r] = "api"]
    /\ UNCHANGED rendererData

\* any 'extends' relation among the renderers
LoadInit ==
    /\ WInit /\ NInit /\ OInit /\ XInit /\ CInit
    /\ rendererData \in [LoadedRenderers -> LoadedRenderers \cup {NoExtends}]
    /\ loadPromise = [r \in LoadedRenderers |-> "none"]

LoadNext ==
    \/ load /\ UNCHANGED <<wvars, nvars, ovars, xvars>>
    \/ runRenderScriptSettles /\ UNCHANGED <<wvars, nvars, ovars, xvars>>
    \/ activateSettles /\ UNCHANGED <<wvars, nvars, ovars, xvars>>
    \/ extensionsSettle /\ UNCHANGED <<wvars, nvars, ovars, xvars>>

\* every script fetch and every activate call settles, and a continuation
\* that can run does run
SpecLoad ==
    /\ LoadInit /\ [][LoadNext]_vars
    /\ WF_vars(runRenderScriptSettles /\ UNCHANGED <<wvars, nvars, ovars, xvars>>)
    /\ WF_vars(activateSettles /\ UNCHANGED <<wvars, nvars, ovars, xvars>>)
    /\ WF_vars(extensionsSettle /\ UNCHANGED <<wvars, nvars, ovars, xvars>>)

\* C20: the promise of every load() that was called eventually settles,
\* whatever the 'extends' relation among the renderers is.
C20_LoadSettles ==
    \A r \in LoadedRenderers : (loadPromise[r] # "none") ~> LoadDone(r)

====
